---- MODULE Spec2Model ----
(***************************************************************************)
(* Record-persistence adapters of pipeline_async (model.py): SqlModel,     *)
(* MongoModel and PassThroughModel.  A record instance is an object of a   *)
(* record class; an adapter resolves it to a stored row through its key    *)
(* fields (_get_rowid / _get_objectid), inserts it when absent (add) and   *)
(* memoizes the backend identifier on the instance (_rowid / _objectid).   *)
(***************************************************************************)
EXTENDS Integers, Sequences, FiniteSets, TLC

(***************************************************************************)
(* Bounds of the model.                                                    *)
(***************************************************************************)
\* rows one table may hold; add is disabled when an insert would exceed it
MaxRows == 2

\* the engine may fail on the first, ..., MaxFaultAt-th writing statement of a call
MaxFaultAt == 4

(***************************************************************************)
(* Python values.                                                          *)
(***************************************************************************)
\* None, and the absence of the _rowid / _objectid attribute.  Row ids are
\* positive (integer primary key), so 0 is free to stand for None.
None == 0

(***************************************************************************)
(* The record classes the adapters are used with.  A field is              *)
(* [name, type, key]; type is a scalar type name or a record class.        *)
(***************************************************************************)
Classes ==
    {"ArithmeticData", "TaxonomyData", "TreeData", "ResultData", "WrapData",
     "BadData", "BadTreeData", "LeafData", "PairData", "ForestData"}

F(n, t, k) == [name |-> n, type |-> t, key |-> k]

\* dataclasses.fields(cls), in declaration order
Fields ==
    [ArithmeticData |-> <<F("a", "int", TRUE), F("b", "int", TRUE),
                          F("result", "int", FALSE)>>,
     TaxonomyData   |-> <<F("kingdom", "str", TRUE)>>,
     TreeData       |-> <<F("number", "int", TRUE),
                          F("taxonomy", "TaxonomyData", TRUE),
                          F("name", "str", FALSE)>>,
     ResultData     |-> <<F("value", "int", FALSE)>>,
     WrapData       |-> <<F("tag", "int", TRUE),
                          F("payload", "ResultData", TRUE)>>,
     BadData        |-> <<F("x", "int", TRUE), F("blob", "complex", FALSE)>>,
     BadTreeData    |-> <<F("x", "int", TRUE),
                          F("taxonomy", "TaxonomyData", FALSE),
                          F("blob", "complex", FALSE)>>,
     LeafData       |-> <<F("code", "int", TRUE),
                          F("taxonomy", "TaxonomyData", FALSE)>>,
     PairData       |-> <<F("left", "TaxonomyData", TRUE),
                          F("right", "TaxonomyData", TRUE)>>,
     ForestData     |-> <<F("tree", "TreeData", TRUE),
                          F("taxonomy", "TaxonomyData", TRUE)>>]

\* dataclasses.is_dataclass(field.type)
IsDataclass(t) == t \in Classes

\* name.lower() of _get_table_name, tabulated for the classes above
LowerName ==
    [ArithmeticData |-> "arithmeticdata", TaxonomyData |-> "taxonomydata",
     TreeData |-> "treedata", ResultData |-> "resultdata",
     WrapData |-> "wrapdata", BadData |-> "baddata",
     BadTreeData |-> "badtreedata", LeafData |-> "leafdata",
     PairData |-> "pairdata", ForestData |-> "forestdata"]

\* _DatabaseModel._get_table_name
GetTableName(cls) == LowerName[cls]

TableNames == {GetTableName(c) : c \in Classes}

\* the fold of the NOCASE collation, tabulated for the text values used
CaseFold ==
    [plantae |-> "plantae", PLANTAE |-> "plantae", animalia |-> "animalia",
     hibiscus |-> "hibiscus", rosa |-> "rosa"]

(***************************************************************************)
(* The record instances (objects) the callers hold.  Cls is type(data),    *)
(* Val[d][f] is getattr(d, f); a nested record field holds an instance.    *)
(***************************************************************************)
Cls ==
    [a1 |-> "ArithmeticData", a2 |-> "ArithmeticData", a3 |-> "ArithmeticData",
     x1 |-> "TaxonomyData", x2 |-> "TaxonomyData", x3 |-> "TaxonomyData",
     t1 |-> "TreeData", t2 |-> "TreeData",
     n1 |-> "ResultData", n2 |-> "ResultData",
     w1 |-> "WrapData", w2 |-> "WrapData",
     b1 |-> "BadData", b2 |-> "BadTreeData",
     x4 |-> "TaxonomyData", l1 |-> "LeafData", l2 |-> "LeafData",
     p1 |-> "PairData", p2 |-> "PairData", f1 |-> "ForestData",
     t3 |-> "TreeData", f2 |-> "ForestData"]

Val ==
    [a1 |-> [a |-> 3, b |-> 4, result |-> 7],
     a2 |-> [a |-> 3, b |-> 4, result |-> -1],
     a3 |-> [a |-> 3, b |-> 99, result |-> 102],
     x1 |-> [kingdom |-> "plantae"],
     x2 |-> [kingdom |-> "plantae"],
     x3 |-> [kingdom |-> "PLANTAE"],
     t1 |-> [number |-> 1, taxonomy |-> "x1", name |-> "hibiscus"],
     t2 |-> [number |-> 1, taxonomy |-> "x2", name |-> "rosa"],
     n1 |-> [value |-> 7],
     n2 |-> [value |-> 7],
     w1 |-> [tag |-> 1, payload |-> "n1"],
     w2 |-> [tag |-> 1, payload |-> "n2"],
     b1 |-> [x |-> 1, blob |-> 0],
     b2 |-> [x |-> 1, taxonomy |-> "x3", blob |-> 0],
     x4 |-> [kingdom |-> "animalia"],
     l1 |-> [code |-> 1, taxonomy |-> "x1"],
     l2 |-> [code |-> 1, taxonomy |-> "x4"],
     p1 |-> [left |-> "x1", right |-> "x4"],
     p2 |-> [left |-> "x1", right |-> "x1"],
     f1 |-> [tree |-> "t1", taxonomy |-> "x2"],
     t3 |-> [number |-> 2, taxonomy |-> "x4", name |-> "rosa"],
     f2 |-> [tree |-> "t3", taxonomy |-> "x3"]]

Instances == DOMAIN Cls

\* datautil.keyfields(data): the fields declared as key fields, in order
KeyFields(cls) == SelectSeq(Fields[cls], LAMBDA f : f.key)

\* the fields of a class that hold a nested record
NestedFields(cls) ==
    {Fields[cls][i] : i \in {k \in 1..Len(Fields[cls]) : IsDataclass(Fields[cls][k].type)}}

RECURSIVE RecordTree(_)

\* r and the record instances nested in it, transitively
RecordTree(r) ==
    {r} \cup UNION {RecordTree(Val[r][f.name]) : f \in NestedFields(Cls[r])}

VARIABLES
    metadata,   \* SqlModel.metadata.tables: table name -> columns (<<>>: no table)
    entities,   \* the tables of the store behind SqlModel.engine
    rows,       \* the rows of each table of the store, in insertion order
    rowid,      \* the _rowid attribute of each instance (None: not set)
    log,        \* the statements the last call sent to the engine
    last,       \* the last call and what it returned
    docs,       \* MongoModel.db: the documents of each collection
    objectid,   \* the _objectid attribute of each instance (None: not set)
    mlast,      \* the last call on the MongoModel and what it returned
    second,     \* a second SqlModel: its metadata.tables, and the tables and
                \* rows of the store behind its engine when that is another store
    pc,         \* where each concurrent caller of add stands in its call
    overlap,    \* whether two add calls of concurrent callers have interleaved
    partial     \* per instance, the nested records the failed add calls on it
                \* inserted, each with the identifier it was given

vars ==
    <<metadata, entities, rows, rowid, log, last, docs, objectid, mlast,
      second, pc, overlap, partial>>

(***************************************************************************)
(* SqlModel.  Its methods are state transformers over                      *)
(*   st = [metadata, entities, rows, rowid, log]                           *)
(* returning [st, ret, err]: the state left behind, the value returned     *)
(* and the exception raised ("ok": none).  A raised exception keeps the    *)
(* state reached so far: every insert commits in its own engine.begin().   *)
(* st.failat = k > 0 makes the engine raise on the k-th statement of the   *)
(* call that writes (create table, insert); 0: the engine never raises.    *)
(***************************************************************************)
Ok == "ok"

Res(st, ret, err) == [st |-> st, ret |-> ret, err |-> err]

\* one statement sent to the engine
Stmt(op, tn, id) == [op |-> op, table |-> tn, id |-> id]

\* the statements of a call so far that write to the store
Writes(lg) == {i \in 1..Len(lg) : lg[i].op \in {"create", "insert"}}

\* conn.execute raises on the next statement that writes
Raises(st) == st.failat # 0 /\ st.failat = Cardinality(Writes(st.log)) + 1

Column(n, t, coll, fk) == [name |-> n, type |-> t, collation |-> coll, fk |-> fk]

\* SqlModel.TYPE_TO_SQLTYPE
TYPE_TO_SQLTYPE ==
    [int |-> "Integer", float |-> "Float", str |-> "String",
     bytes |-> "LargeBinary", datetime |-> "DateTime", date |-> "Date",
     bool |-> "Boolean"]

\* the column type _create_column chooses for a scalar field ("": None)
ColumnType(field) ==
    IF field.type = "enum" THEN "Enum"
    ELSE IF field.type = "str" /\ field.key THEN "String"
    ELSE IF field.type \in DOMAIN TYPE_TO_SQLTYPE THEN TYPE_TO_SQLTYPE[field.type]
    ELSE ""

RECURSIVE RequireTable(_, _)

\* _create_column with a String column for any type it does not know, in
\* place of the ValueError
CreateColumnAnyType(st, field) ==
    IF IsDataclass(field.type)
    THEN LET sub == RequireTable(st, field.type)
         IN  IF sub.err # Ok THEN sub
             ELSE Res(sub.st, Column(field.name \o "_id", "Integer", "", sub.ret), Ok)
    ELSE Res(st,
             Column(field.name,
                    IF ColumnType(field) = "" THEN "String" ELSE ColumnType(field),
                    IF field.type = "str" /\ field.key THEN "NOCASE" ELSE "", ""),
             Ok)

\* SqlModel._create_column
CreateColumn(st, field) ==
    IF IsDataclass(field.type)
    THEN LET sub == RequireTable(st, field.type)
         IN  IF sub.err # Ok THEN sub
             ELSE Res(sub.st, Column(field.name \o "_id", "Integer", "", sub.ret), Ok)
    ELSE IF ColumnType(field) = ""
    THEN Res(st, None, "ValueError")
    ELSE Res(st,
             Column(field.name, ColumnType(field),
                    IF field.type = "str" /\ field.key THEN "NOCASE" ELSE "", ""),
             Ok)

RECURSIVE CreateColumns(_, _, _, _)

\* the loop of _create_table over dataclasses.fields
CreateColumns(st, fields, i, columns) ==
    IF i > Len(fields) THEN Res(st, columns, Ok)
    ELSE LET c == CreateColumn(st, fields[i])
         IN  IF c.err # Ok THEN c
             ELSE CreateColumns(c.st, fields, i + 1, Append(columns, c.ret))

\* _create_table without its metadata.create_all call
CreateAllSkipped(st, tn) == st

\* metadata.create_all(engine, tables=[table]): CREATE TABLE unless present
CreateAll(st, tn) ==
    IF tn \in st.entities THEN st
    ELSE [st EXCEPT !.entities = @ \cup {tn},
                    !.log = Append(@, Stmt("create", tn, None))]

\* _create_table that creates the table in the store before it builds the
\* columns, and with them the tables of the nested record classes
CreateTableParentFirst(st, tn, cls) ==
    LET cs == CreateColumns(CreateAll(st, tn), Fields[cls], 1,
                            <<Column("id", "Integer", "", "")>>)
    IN  IF cs.err # Ok THEN cs
        ELSE Res([cs.st EXCEPT !.metadata[tn] = cs.ret], tn, Ok)

\* SqlModel._create_table: sqlalchemy.Table registers the table in metadata,
\* then create_all creates it in the store
CreateTable(st, tn, cls) ==
    LET cs == CreateColumns(st, Fields[cls], 1, <<Column("id", "Integer", "", "")>>)
        reg == [cs.st EXCEPT !.metadata[tn] = cs.ret]
    IN  IF cs.err # Ok THEN cs
        ELSE IF tn \notin reg.entities /\ Raises(reg)
        THEN Res(reg, None, "OperationalError")
        ELSE Res(CreateAll(reg, tn), tn, Ok)

\* SqlModel._require_table
RequireTable(st, cls) ==
    LET tn == GetTableName(cls)
    IN  IF st.metadata[tn] = <<>> THEN CreateTable(st, tn, cls)
        ELSE Res(st, tn, Ok)

\* table.c[name]
ColumnOf(table, name) ==
    table[CHOOSE k \in 1..Len(table) : table[k].name = name]

\* column == value under the column's collation
ClauseHolds(table, row, clause) ==
    IF ColumnOf(table, clause.col).collation = "NOCASE"
    THEN CaseFold[row[clause.col]] = CaseFold[clause.val]
    ELSE row[clause.col] = clause.val

\* the select with or_(*clauses) in place of and_(*clauses)
SelectAny(st, tn, clauses) ==
    {i \in 1..Len(st.rows[tn]) :
        \E k \in 1..Len(clauses) :
            ClauseHolds(st.metadata[tn], st.rows[tn][i], clauses[k])}

\* the ids selected by  select id from table where and_(*clauses)
Select(st, tn, clauses) ==
    {i \in 1..Len(st.rows[tn]) :
        \A k \in 1..Len(clauses) :
            ClauseHolds(st.metadata[tn], st.rows[tn][i], clauses[k])}

\* the orders in which the engine may return the selected rows
ScanOrders == {"asc", "desc"}

\* .scalar(): the first row of the result, None when it is empty
Scalar(ids, ord) ==
    IF ids = {} THEN None
    ELSE IF ord = "asc" THEN CHOOSE i \in ids : \A j \in ids : i <= j
    ELSE CHOOSE i \in ids : \A j \in ids : i >= j

RECURSIVE GetRowid(_, _, _)
RECURSIVE KeyClauses(_, _, _, _, _, _)

\* the loop with getattr(value, '_rowid', None) in place of the recursive
\* _get_rowid(value): a nested record is looked up by its memoized id only
KeyClausesMemoOnly(st, data, kfs, i, ord, clauses) ==
    IF i > Len(kfs) THEN Res(st, clauses, Ok)
    ELSE LET field == kfs[i]
             value == Val[data][field.name]
         IN  IF IsDataclass(field.type)
             THEN KeyClauses(st, data, kfs, i + 1, ord,
                      Append(clauses,
                             [col |-> field.name \o "_id", val |-> st.rowid[value]]))
             ELSE KeyClauses(st, data, kfs, i + 1, ord,
                      Append(clauses, [col |-> field.name, val |-> value]))

\* the loop of _get_rowid over keyfields(data)
KeyClauses(st, data, kfs, i, ord, clauses) ==
    IF i > Len(kfs) THEN Res(st, clauses, Ok)
    ELSE LET field == kfs[i]
             value == Val[data][field.name]
         IN  IF IsDataclass(field.type)
             THEN LET sub == GetRowid(st, value, ord)
                  IN  KeyClauses(sub.st, data, kfs, i + 1, ord,
                          Append(clauses,
                                 [col |-> field.name \o "_id", val |-> sub.ret]))
             ELSE KeyClauses(st, data, kfs, i + 1, ord,
                      Append(clauses, [col |-> field.name, val |-> value]))

\* _get_rowid without the "if not clauses: return None" guard: a record
\* without key fields selects with an empty where clause
GetRowidNoGuard(st, data, ord) ==
    IF st.rowid[data] # None THEN Res(st, st.rowid[data], Ok)
    ELSE LET tn == GetTableName(Cls[data])
         IN  IF st.metadata[tn] = <<>> THEN Res(st, None, Ok)
             ELSE LET kc == KeyClauses(st, data, KeyFields(Cls[data]), 1, ord, <<>>)
                      s1 == [kc.st EXCEPT !.log = Append(@, Stmt("select", tn, None))]
                      id == Scalar(Select(s1, tn, kc.ret), ord)
                  IN  IF id = None THEN Res(s1, None, Ok)
                      ELSE Res([s1 EXCEPT !.rowid[data] = id], id, Ok)

\* _get_rowid with self._require_table(data) in place of
\* self.metadata.tables.get(table_name)
GetRowidRequire(st, data, ord) ==
    IF st.rowid[data] # None THEN Res(st, st.rowid[data], Ok)
    ELSE LET rt == RequireTable(st, Cls[data])
         IN  IF rt.err # Ok THEN rt
             ELSE LET tn == rt.ret
                      kc == KeyClauses(rt.st, data, KeyFields(Cls[data]), 1, ord, <<>>)
                  IN  IF kc.ret = <<>> THEN Res(kc.st, None, Ok)
                      ELSE LET s1 == [kc.st EXCEPT
                                         !.log = Append(@, Stmt("select", tn, None))]
                               id == Scalar(Select(s1, tn, kc.ret), ord)
                           IN  IF id = None THEN Res(s1, None, Ok)
                               ELSE Res([s1 EXCEPT !.rowid[data] = id], id, Ok)

\* _get_rowid that returns None, without the select on the record's table,
\* as soon as a nested key record has resolved to None
GetRowidShortCircuit(st, data, ord) ==
    IF st.rowid[data] # None THEN Res(st, st.rowid[data], Ok)
    ELSE LET tn == GetTableName(Cls[data])
         IN  IF st.metadata[tn] = <<>> THEN Res(st, None, Ok)
             ELSE LET kc == KeyClauses(st, data, KeyFields(Cls[data]), 1, ord, <<>>)
                  IN  IF kc.ret = <<>> THEN Res(kc.st, None, Ok)
                      ELSE IF \E k \in 1..Len(kc.ret) :
                                  /\ IsDataclass(KeyFields(Cls[data])[k].type)
                                  /\ kc.ret[k].val = None
                      THEN Res(kc.st, None, Ok)
                      ELSE LET s1 == [kc.st EXCEPT
                                         !.log = Append(@, Stmt("select", tn, None))]
                               id == Scalar(Select(s1, tn, kc.ret), ord)
                           IN  IF id = None THEN Res(s1, None, Ok)
                               ELSE Res([s1 EXCEPT !.rowid[data] = id], id, Ok)

\* SqlModel._get_rowid
GetRowid(st, data, ord) ==
    IF st.rowid[data] # None THEN Res(st, st.rowid[data], Ok)
    ELSE LET tn == GetTableName(Cls[data])
         IN  IF st.metadata[tn] = <<>> THEN Res(st, None, Ok)
             ELSE LET kc == KeyClauses(st, data, KeyFields(Cls[data]), 1, ord, <<>>)
                  IN  IF kc.ret = <<>> THEN Res(kc.st, None, Ok)
                      ELSE LET s1 == [kc.st EXCEPT
                                         !.log = Append(@, Stmt("select", tn, None))]
                               id == Scalar(Select(s1, tn, kc.ret), ord)
                           IN  IF id = None THEN Res(s1, None, Ok)
                               ELSE Res([s1 EXCEPT !.rowid[data] = id], id, Ok)

RECURSIVE Add(_, _, _, _)
RECURSIVE BuildRow(_, _, _, _, _, _)

\* the loop with self._get_rowid(value) in place of self.add(value,
\* check_exists): a nested record is referred to, never stored
BuildRowLookup(st, data, i, check_exists, ord, row) ==
    LET fields == Fields[Cls[data]]
    IN  IF i > Len(fields) THEN Res(st, row, Ok)
        ELSE LET name == fields[i].name
                 value == Val[data][name]
             IN  IF IsDataclass(fields[i].type)
                 THEN LET sub == GetRowid(st, value, ord)
                      IN  BuildRow(sub.st, data, i + 1, check_exists, ord,
                                   (name \o "_id" :> sub.ret) @@ row)
                 ELSE BuildRow(st, data, i + 1, check_exists, ord,
                               (name :> value) @@ row)

\* the loop that adds a nested record without regard to its _rowid
BuildRowForgetful(st, data, i, check_exists, ord, row) ==
    LET fields == Fields[Cls[data]]
    IN  IF i > Len(fields) THEN Res(st, row, Ok)
        ELSE LET name == fields[i].name
                 value == Val[data][name]
             IN  IF IsDataclass(fields[i].type)
                 THEN LET sub == Add([st EXCEPT !.rowid[value] = None], value,
                                     check_exists, ord)
                      IN  IF sub.err # Ok THEN sub
                          ELSE BuildRow(sub.st, data, i + 1, check_exists, ord,
                                        (name \o "_id" :> sub.ret) @@ row)
                 ELSE BuildRow(st, data, i + 1, check_exists, ord,
                               (name :> value) @@ row)

\* the loop with self.add(value) in place of self.add(value, check_exists):
\* a nested record is added with the default, check_exists=True
BuildRowAlwaysCheck(st, data, i, check_exists, ord, row) ==
    LET fields == Fields[Cls[data]]
    IN  IF i > Len(fields) THEN Res(st, row, Ok)
        ELSE LET name == fields[i].name
                 value == Val[data][name]
             IN  IF IsDataclass(fields[i].type)
                 THEN LET sub == Add(st, value, TRUE, ord)
                      IN  IF sub.err # Ok THEN sub
                          ELSE BuildRow(sub.st, data, i + 1, check_exists, ord,
                                        (name \o "_id" :> sub.ret) @@ row)
                 ELSE BuildRow(st, data, i + 1, check_exists, ord,
                               (name :> value) @@ row)

\* the loop of add over dataclasses.fields(data) that fills row
BuildRow(st, data, i, check_exists, ord, row) ==
    LET fields == Fields[Cls[data]]
    IN  IF i > Len(fields) THEN Res(st, row, Ok)
        ELSE LET name == fields[i].name
                 value == Val[data][name]
             IN  IF IsDataclass(fields[i].type)
                 THEN LET sub == Add(st, value, check_exists, ord)
                      IN  IF sub.err # Ok THEN sub
                          ELSE BuildRow(sub.st, data, i + 1, check_exists, ord,
                                        (name \o "_id" :> sub.ret) @@ row)
                 ELSE BuildRow(st, data, i + 1, check_exists, ord,
                               (name :> value) @@ row)

\* the insert without  data._rowid = rowid
InsertNoMemo(st, tn, data, row) ==
    LET id == Len(st.rows[tn]) + 1
    IN  IF tn \notin st.entities \/ Raises(st)
        THEN Res(st, None, "OperationalError")
        ELSE Res([st EXCEPT !.rows[tn] = Append(@, row),
                            !.log = Append(@, Stmt("insert", tn, id))],
                 id, Ok)

\* conn.execute(table.insert(), row): the new row gets the next integer id;
\* the engine raises when the store has no such table, or when it fails
Insert(st, tn, data, row) ==
    LET id == Len(st.rows[tn]) + 1
    IN  IF tn \notin st.entities \/ Raises(st)
        THEN Res(st, None, "OperationalError")
        ELSE Res([st EXCEPT !.rows[tn] = Append(@, row),
                            !.log = Append(@, Stmt("insert", tn, id)),
                            !.rowid[data] = id],
                 id, Ok)

\* add inside one transaction: when it raises, the rows it inserted are gone
AddRollback(st, data, check_exists, ord) ==
    LET res ==
            IF st.rowid[data] # None THEN Res(st, st.rowid[data], Ok)
            ELSE LET found == IF check_exists THEN GetRowid(st, data, ord)
                              ELSE Res(st, None, Ok)
                 IN  IF found.ret # None THEN found
                     ELSE LET br == BuildRow(found.st, data, 1, check_exists, ord,
                                             [c \in {} |-> None])
                          IN  IF br.err # Ok THEN br
                              ELSE LET rt == RequireTable(br.st, Cls[data])
                                   IN  IF rt.err # Ok THEN rt
                                       ELSE Insert(rt.st, rt.ret, data, br.ret)
    IN  IF res.err = Ok THEN res
        ELSE Res([res.st EXCEPT !.rows = st.rows], None, res.err)

\* add that stores the nested records before it looks the record up
AddNestedFirst(st, data, check_exists, ord) ==
    IF st.rowid[data] # None THEN Res(st, st.rowid[data], Ok)
    ELSE LET br == BuildRow(st, data, 1, check_exists, ord, [c \in {} |-> None])
         IN  IF br.err # Ok THEN br
             ELSE LET found == IF check_exists THEN GetRowid(br.st, data, ord)
                               ELSE Res(br.st, None, Ok)
                  IN  IF found.ret # None THEN found
                      ELSE LET rt == RequireTable(found.st, Cls[data])
                           IN  IF rt.err # Ok THEN rt
                               ELSE Insert(rt.st, rt.ret, data, br.ret)

\* add without its  if hasattr(data, '_rowid'): return data._rowid
AddNoShortCircuit(st, data, check_exists, ord) ==
    LET found == IF check_exists THEN GetRowid(st, data, ord)
                 ELSE Res(st, None, Ok)
    IN  IF found.ret # None THEN found
        ELSE LET br == BuildRow(found.st, data, 1, check_exists, ord,
                                [c \in {} |-> None])
             IN  IF br.err # Ok THEN br
                 ELSE LET rt == RequireTable(br.st, Cls[data])
                      IN  IF rt.err # Ok THEN rt
                          ELSE Insert(rt.st, rt.ret, data, br.ret)

\* SqlModel.add
Add(st, data, check_exists, ord) ==
    IF st.rowid[data] # None THEN Res(st, st.rowid[data], Ok)
    ELSE LET found == IF check_exists THEN GetRowid(st, data, ord)
                      ELSE Res(st, None, Ok)
         IN  IF found.ret # None THEN found
             ELSE LET br == BuildRow(found.st, data, 1, check_exists, ord,
                                     [c \in {} |-> None])
                  IN  IF br.err # Ok THEN br
                      ELSE LET rt == RequireTable(br.st, Cls[data])
                           IN  IF rt.err # Ok THEN rt
                               ELSE Insert(rt.st, rt.ret, data, br.ret)

\* the first part of add without the call of _get_rowid, as if check_exists
\* were false
AddLookupNoCheck(st, data, check_exists, ord) ==
    IF st.rowid[data] # None THEN Res(st, st.rowid[data], Ok)
    ELSE Res(st, None, Ok)

\* the first part of add, up to the lookup: the value add returns at once,
\* None when add goes on to insert
AddLookup(st, data, check_exists, ord) ==
    IF st.rowid[data] # None THEN Res(st, st.rowid[data], Ok)
    ELSE IF check_exists THEN GetRowid(st, data, ord)
    ELSE Res(st, None, Ok)

\* the insert of row into the table _require_table returned, unless it raised
InsertInto(rt, data, row) ==
    IF rt.err # Ok THEN rt ELSE Insert(rt.st, rt.ret, data, row)

\* _require_table and the insert, unless the loop over the fields raised
InsertBuilt(br, data) ==
    IF br.err # Ok THEN br
    ELSE InsertInto(RequireTable(br.st, Cls[data]), data, br.ret)

\* the second part of add: the nested records, the table, the insert
AddInsert(st, data, check_exists, ord) ==
    InsertBuilt(BuildRow(st, data, 1, check_exists, ord, [c \in {} |-> None]),
                data)

\* exists that first makes sure the table of the record exists
ExistsRequire(st, data, ord) ==
    LET rt == RequireTable(st, Cls[data])
    IN  IF rt.err # Ok THEN rt
        ELSE LET r == GetRowid(rt.st, data, ord) IN Res(r.st, r.ret # None, Ok)

\* SqlModel.exists
Exists(st, data, ord) ==
    LET r == GetRowid(st, data, ord) IN Res(r.st, r.ret # None, Ok)

(***************************************************************************)
(* MongoModel, over  st = [docs, objectid].  A nested record is embedded   *)
(* in its parent's document; a collection exists once it holds a document. *)
(***************************************************************************)
EmptyDict == [k \in {} |-> None]

\* MongoModel._convert_value: an enum member is stored by name, a date or
\* datetime as datetime(year, month, day)
ConvertValue(field, value) ==
    IF field.type = "enum" THEN value.name
    ELSE IF field.type \in {"date", "datetime"} THEN [value EXCEPT !.time = 0]
    ELSE value

RECURSIVE Join(_)

\* '.'.join(parents)
Join(parents) ==
    IF parents = <<>> THEN ""
    ELSE IF Len(parents) = 1 THEN parents[1]
    ELSE parents[1] \o "." \o Join(Tail(parents))

RECURSIVE CreateQuery(_, _)
RECURSIVE QueryLoop(_, _, _, _, _)

\* the loop of _create_query over keyfields(data); query.update and
\* query[key] = value overwrite an equal key
QueryLoop(data, kfs, i, parents, query) ==
    IF i > Len(kfs) THEN query
    ELSE LET field == kfs[i]
             value == Val[data][field.name]
         IN  IF IsDataclass(field.type)
             THEN QueryLoop(data, kfs, i + 1, parents,
                      CreateQuery(value, Append(parents, field.name)) @@ query)
             ELSE QueryLoop(data, kfs, i + 1, parents,
                      (Join(parents) \o field.name :> ConvertValue(field, value))
                          @@ query)

\* MongoModel._create_query
CreateQuery(data, parents) ==
    QueryLoop(data, KeyFields(Cls[data]), 1, parents, EmptyDict)

RECURSIVE CreateRow(_)
RECURSIVE RowLoop(_, _, _)

\* the loop of _create_row over dataclasses.fields(data)
RowLoop(data, i, row) ==
    LET fields == Fields[Cls[data]]
    IN  IF i > Len(fields) THEN row
        ELSE LET name == fields[i].name
                 value == Val[data][name]
             IN  IF IsDataclass(fields[i].type)
                 THEN RowLoop(data, i + 1, (name :> CreateRow(value)) @@ row)
                 ELSE RowLoop(data, i + 1,
                              (name :> ConvertValue(fields[i], value)) @@ row)

\* MongoModel._create_row
CreateRow(data) == RowLoop(data, 1, EmptyDict)

RECURSIVE DocPaths(_, _, _, _)

\* the fields of a document of class cls that a query key can name, in dot
\* notation: "taxonomy.kingdom" is field kingdom of the embedded taxonomy
DocPaths(cls, doc, prefix, i) ==
    LET fields == Fields[cls]
    IN  IF i > Len(fields) THEN EmptyDict
        ELSE LET name == fields[i].name
             IN  (IF IsDataclass(fields[i].type)
                  THEN DocPaths(fields[i].type, doc[name], prefix \o name \o ".", 1)
                  ELSE (prefix \o name :> doc[name]))
                 @@ DocPaths(cls, doc, prefix, i + 1)

\* the documents of a collection that collection.find(query) selects: each
\* key of the query names a field of the document that holds the value
Find(st, cls, query) ==
    LET tn == GetTableName(cls)
    IN  {i \in 1..Len(st.docs[tn]) :
            LET paths == DocPaths(cls, st.docs[tn][i], "", 1)
            IN  \A k \in DOMAIN query :
                    k \in DOMAIN paths /\ paths[k] = query[k]}

\* db.list_collection_names()
ListCollectionNames(st) == {tn \in TableNames : st.docs[tn] # <<>>}

\* the number of documents in the database
CountDocs(st) ==
    LET RECURSIVE Sum(_)
        Sum(S) == IF S = {} THEN 0
                  ELSE LET tn == CHOOSE x \in S : TRUE
                       IN  Len(st.docs[tn]) + Sum(S \ {tn})
    IN  Sum(TableNames)

\* MongoModel._get_objectid
GetObjectid(st, data, ord) ==
    IF st.objectid[data] # None THEN Res(st, st.objectid[data], Ok)
    ELSE LET tn == GetTableName(Cls[data])
             query == CreateQuery(data, <<>>)
         IN  IF tn \notin ListCollectionNames(st) THEN Res(st, None, Ok)
             ELSE IF DOMAIN query = {} THEN Res(st, None, Ok)
             ELSE LET i == Scalar(Find(st, Cls[data], query), ord)
                  IN  IF i = None THEN Res(st, None, Ok)
                      ELSE LET id == st.docs[tn][i]["_id"]
                           IN  Res([st EXCEPT !.objectid[data] = id], id, Ok)

\* MongoModel.exists
MongoExists(st, data, ord) ==
    LET r == GetObjectid(st, data, ord) IN Res(r.st, r.ret # None, Ok)

\* MongoModel.add; insert_one gives the document an ObjectId no other has
MongoAdd(st, data, check_exists, ord) ==
    IF st.objectid[data] # None THEN Res(st, st.objectid[data], Ok)
    ELSE LET found == IF check_exists THEN GetObjectid(st, data, ord)
                      ELSE Res(st, None, Ok)
         IN  IF found.ret # None THEN found
             ELSE LET tn == GetTableName(Cls[data])
                      id == CountDocs(st) + 1
                      row == ("_id" :> id) @@ CreateRow(data)
                  IN  Res([found.st EXCEPT !.docs[tn] = Append(@, row),
                                           !.objectid[data] = id],
                          id, Ok)

(***************************************************************************)
(* PassThroughModel, as model.py and as model/passthrough.py define it.    *)
(* A call passes data and, optionally, check_exists; nargs counts them.    *)
(***************************************************************************)
\* the parameters after self: [required, accepted]
Signature ==
    [model |->
        [exists |-> [required |-> 1, accepted |-> 2],
         add    |-> [required |-> 1, accepted |-> 1]],
     passthrough |->
        [exists |-> [required |-> 1, accepted |-> 1],
         add    |-> [required |-> 1, accepted |-> 2]]]

\* the list [] that add returns
EmptyList == <<>>

\* PassThroughModel.exists
PassThroughExists(impl, nargs) ==
    IF nargs < Signature[impl].exists.required \/ nargs > Signature[impl].exists.accepted
    THEN [ret |-> None, err |-> "TypeError"]
    ELSE [ret |-> FALSE, err |-> Ok]

\* PassThroughModel.add
PassThroughAdd(impl, nargs) ==
    IF nargs < Signature[impl].add.required \/ nargs > Signature[impl].add.accepted
    THEN [ret |-> None, err |-> "TypeError"]
    ELSE [ret |-> EmptyList, err |-> Ok]

(***************************************************************************)
(* The calls of one caller on the adapters.                                *)
(***************************************************************************)
\* the state of the SqlModel, its store and the instances before a call
State ==
    [metadata |-> metadata, entities |-> entities, rows |-> rows,
     rowid |-> rowid, log |-> <<>>, failat |-> 0]

\* the state of the MongoModel, its database and the instances
MongoState == [docs |-> docs, objectid |-> objectid]

\* a call on a database adapter and its outcome: inserted counts the entries
\* the call added to the entity of data's own class
Call(model, op, data, ce, res, inserted) ==
    [model |-> model, op |-> op, data |-> data, check_exists |-> ce,
     err |-> res.err,
     ret |-> IF op = "add" /\ res.err = Ok THEN res.ret ELSE None,
     found |-> op = "exists" /\ res.ret,
     inserted |-> inserted]

\* the callers that may run add at the same time
Callers == {1, 2}

\* a caller that is not inside a call
Idle == [at |-> "idle", data |-> "a1"]

NoCall ==
    [model |-> "none", op |-> "none", data |-> "a1", check_exists |-> TRUE,
     err |-> Ok, ret |-> None, found |-> FALSE, inserted |-> 0]

Apply(res) ==
    /\ \A tn \in TableNames : Len(res.st.rows[tn]) <= MaxRows
    /\ metadata' = res.st.metadata
    /\ entities' = res.st.entities
    /\ rows' = res.st.rows
    /\ rowid' = res.st.rowid
    /\ log' = res.st.log

MongoApply(res) ==
    /\ docs' = res.st.docs
    /\ objectid' = res.st.objectid

\* what a failed add leaves behind: the records the call stored before it
\* raised keep the _rowid they were given
Remember(data, res) ==
    partial' =
        IF res.err = Ok THEN partial
        ELSE [partial EXCEPT ![data] =
                 [d \in {e \in Instances : rowid[e] = None /\ res.st.rowid[e] # None}
                     |-> res.st.rowid[d]] @@ @]

SqlInserted(data, res) ==
    Len(res.st.rows[GetTableName(Cls[data])]) - Len(rows[GetTableName(Cls[data])])

MongoInserted(data, res) ==
    Len(res.st.docs[GetTableName(Cls[data])]) - Len(docs[GetTableName(Cls[data])])

\* SqlModel.__init__ on an empty store, MongoModel.__init__ on an empty
\* database, and instances that were never stored
Init ==
    /\ metadata = [tn \in TableNames |-> <<>>]
    /\ entities = {}
    /\ rows = [tn \in TableNames |-> <<>>]
    /\ rowid = [d \in Instances |-> None]
    /\ log = <<>>
    /\ last = NoCall
    /\ docs = [tn \in TableNames |-> <<>>]
    /\ objectid = [d \in Instances |-> None]
    /\ mlast = NoCall
    /\ second = [metadata |-> [tn \in TableNames |-> <<>>], entities |-> {},
                 rows |-> [tn \in TableNames |-> <<>>]]
    /\ pc = [c \in Callers |-> Idle]
    /\ overlap = FALSE
    /\ partial = [d \in Instances |-> EmptyDict]

\* sqlmodel.add(data, check_exists); check_exists defaults to True
SqlAdd(pool) ==
    \E data \in pool, check_exists \in BOOLEAN, ord \in ScanOrders :
        LET res == Add(State, data, check_exists, ord)
        IN  /\ Apply(res)
            /\ last' = Call("sql", "add", data, check_exists, res,
                            SqlInserted(data, res))
            /\ Remember(data, res)
            /\ UNCHANGED <<docs, objectid, mlast, second, pc, overlap>>

\* sqlmodel.add(data, check_exists) while the engine fails on the k-th
\* statement of the call that writes to the store
SqlAddFaulty(pool) ==
    \E data \in pool, check_exists \in BOOLEAN, ord \in ScanOrders,
       k \in 1..MaxFaultAt :
        LET res == Add([State EXCEPT !.failat = k], data, check_exists, ord)
        IN  /\ Apply(res)
            /\ last' = Call("sql", "add", data, check_exists, res,
                            SqlInserted(data, res))
            /\ Remember(data, res)
            /\ UNCHANGED <<docs, objectid, mlast, second, pc, overlap>>

\* sqlmodel._require_table(cls)
SqlRequire(classes) ==
    \E cls \in classes :
        LET res == RequireTable(State, cls)
        IN  /\ Apply(res)
            /\ last' = [model |-> "sql", op |-> "require", data |-> "a1",
                        check_exists |-> TRUE, err |-> res.err, ret |-> None,
                        found |-> FALSE, inserted |-> 0, cls |-> cls,
                        table |-> IF res.err = Ok THEN res.ret ELSE ""]
            /\ UNCHANGED <<docs, objectid, mlast, second, pc, overlap, partial>>

\* sqlmodel.exists(data)
SqlExists(pool) ==
    \E data \in pool, ord \in ScanOrders :
        LET res == Exists(State, data, ord)
        IN  /\ Apply(res)
            /\ last' = Call("sql", "exists", data, TRUE, res,
                            SqlInserted(data, res))
            /\ UNCHANGED <<docs, objectid, mlast, second, pc, overlap, partial>>

\* the same add on a SqlModel and on a MongoModel
BothAdd(pool) ==
    \E data \in pool, check_exists \in BOOLEAN, ord \in ScanOrders :
        LET res == Add(State, data, check_exists, ord)
            mres == MongoAdd(MongoState, data, check_exists, ord)
        IN  /\ Apply(res)
            /\ MongoApply(mres)
            /\ last' = Call("sql", "add", data, check_exists, res,
                            SqlInserted(data, res))
            /\ mlast' = Call("mongo", "add", data, check_exists, mres,
                             MongoInserted(data, mres))
            /\ Remember(data, res)
            /\ UNCHANGED <<second, pc, overlap>>

\* the same exists on a SqlModel and on a MongoModel
BothExists(pool) ==
    \E data \in pool, ord \in ScanOrders :
        LET res == Exists(State, data, ord)
            mres == MongoExists(MongoState, data, ord)
        IN  /\ Apply(res)
            /\ MongoApply(mres)
            /\ last' = Call("sql", "exists", data, TRUE, res,
                            SqlInserted(data, res))
            /\ mlast' = Call("mongo", "exists", data, TRUE, mres,
                             MongoInserted(data, mres))
            /\ UNCHANGED <<second, pc, overlap, partial>>

\* the state of the second SqlModel, bound to a store of its own, and of
\* the instances, which the callers share between the adapters
SecondState ==
    [metadata |-> second.metadata, entities |-> second.entities,
     rows |-> second.rows, rowid |-> rowid, log |-> <<>>, failat |-> 0]

SecondApply(res) ==
    /\ \A tn \in TableNames : Len(res.st.rows[tn]) <= MaxRows
    /\ second' = [metadata |-> res.st.metadata, entities |-> res.st.entities,
                  rows |-> res.st.rows]
    /\ rowid' = res.st.rowid
    /\ log' = res.st.log

SecondInserted(data, res) ==
    Len(res.st.rows[GetTableName(Cls[data])])
        - Len(second.rows[GetTableName(Cls[data])])

\* add(data, check_exists) on the second SqlModel
SecondAdd(pool) ==
    \E data \in pool, check_exists \in BOOLEAN, ord \in ScanOrders :
        LET res == Add(SecondState, data, check_exists, ord)
        IN  /\ SecondApply(res)
            /\ last' = Call("sql2", "add", data, check_exists, res,
                            SecondInserted(data, res))
            /\ Remember(data, res)
            /\ UNCHANGED <<metadata, entities, rows, docs, objectid, mlast,
                           pc, overlap>>

\* exists(data) on the second SqlModel
SecondExists(pool) ==
    \E data \in pool, ord \in ScanOrders :
        LET res == Exists(SecondState, data, ord)
        IN  /\ SecondApply(res)
            /\ last' = Call("sql2", "exists", data, TRUE, res,
                            SecondInserted(data, res))
            /\ UNCHANGED <<metadata, entities, rows, docs, objectid, mlast,
                           pc, overlap, partial>>

\* a caller enters add(data, check_exists=True) and runs it up to the lookup;
\* the call returns at once when the lookup finds a row
RaceLookup(pool) ==
    \E c \in Callers, data \in pool, ord \in ScanOrders :
        LET res == AddLookup(State, data, TRUE, ord)
        IN  /\ pc[c].at = "idle"
            /\ Apply(res)
            /\ overlap' = (overlap \/ \E o \in Callers \ {c} : pc[o].at = "looked")
            /\ pc' = IF res.ret # None THEN pc
                     ELSE [pc EXCEPT ![c] = [at |-> "looked", data |-> data]]
            /\ last' = IF res.ret # None
                       THEN Call("sql", "add", data, TRUE, res, 0)
                       ELSE last
            /\ UNCHANGED <<docs, objectid, mlast, second, partial>>

\* a caller whose lookup found nothing runs the rest of its add
RaceInsert(pool) ==
    \E c \in Callers, data \in pool, ord \in ScanOrders :
        LET res == AddInsert(State, data, TRUE, ord)
        IN  /\ pc[c].at = "looked" /\ pc[c].data = data
            /\ Apply(res)
            /\ pc' = [pc EXCEPT ![c] = Idle]
            /\ last' = Call("sql", "add", data, TRUE, res, SqlInserted(data, res))
            /\ UNCHANGED <<docs, objectid, mlast, second, overlap, partial>>

\* metadata.reflect(engine): the tables the store holds, with their columns
Reflect(ents) ==
    [tn \in TableNames |->
        IF tn \in ents
        THEN LET cls == CHOOSE c \in Classes : GetTableName(c) = tn
             IN  CreateColumns(State, Fields[cls], 1,
                               <<Column("id", "Integer", "", "")>>).ret
        ELSE <<>>]

\* the state of one of two SqlModel adapters on the same store: each has
\* its own metadata, the engine and the instances are shared
SharedState(adapter) ==
    [metadata |-> IF adapter = "sql2" THEN second.metadata ELSE metadata,
     entities |-> entities, rows |-> rows, rowid |-> rowid, log |-> <<>>,
     failat |-> 0]

\* SqlModel(engine) for the second adapter, on the store as it is now
SharedConstruct ==
    /\ second' = [second EXCEPT !.metadata = Reflect(entities)]
    /\ last' = [NoCall EXCEPT !.model = "sql2", !.op = "init"]
    /\ log' = <<>>
    /\ UNCHANGED <<metadata, entities, rows, rowid, docs, objectid, mlast,
                   pc, overlap, partial>>

\* add(data) on one of the two adapters, data an instance never passed to
\* an adapter before
SharedAdd(pool) ==
    \E adapter \in {"sql", "sql2"}, data \in pool, ord \in ScanOrders :
        LET res == Add(SharedState(adapter), data, TRUE, ord)
        IN  /\ \A d \in RecordTree(data) : rowid[d] = None
            /\ \A tn \in TableNames : Len(res.st.rows[tn]) <= MaxRows
            /\ IF adapter = "sql2"
               THEN /\ second' = [second EXCEPT !.metadata = res.st.metadata]
                    /\ metadata' = metadata
               ELSE /\ metadata' = res.st.metadata
                    /\ second' = second
            /\ entities' = res.st.entities
            /\ rows' = res.st.rows
            /\ rowid' = res.st.rowid
            /\ log' = res.st.log
            /\ last' = Call(adapter, "add", data, TRUE, res, SqlInserted(data, res))
            /\ Remember(data, res)
            /\ UNCHANGED <<docs, objectid, mlast, pc, overlap>>

\* the ways the contract lets a caller pass arguments: (data) or
\* (data, check_exists)
ArgCounts == {1, 2}

\* passthrough.add(data), passthrough.add(data, check_exists)
NoopAdd(pool) ==
    \E impl \in DOMAIN Signature, data \in pool, nargs \in ArgCounts,
       check_exists \in BOOLEAN :
        LET res == PassThroughAdd(impl, nargs)
        IN  /\ nargs = 1 => check_exists
            /\ last' = [model |-> impl, op |-> "add", data |-> data,
                        check_exists |-> check_exists, err |-> res.err,
                        ret |-> res.ret, found |-> FALSE, inserted |-> 0,
                        nargs |-> nargs]
            /\ UNCHANGED <<metadata, entities, rows, rowid, log,
                           docs, objectid, mlast, second, pc, overlap, partial>>

\* passthrough.exists(data)
NoopExists(pool) ==
    \E impl \in DOMAIN Signature, data \in pool :
        LET res == PassThroughExists(impl, 1)
        IN  /\ last' = [model |-> impl, op |-> "exists", data |-> data,
                        check_exists |-> TRUE, err |-> res.err,
                        ret |-> None, found |-> res.ret, inserted |-> 0,
                        nargs |-> 1]
            /\ UNCHANGED <<metadata, entities, rows, rowid, log,
                           docs, objectid, mlast, second, pc, overlap, partial>>

(***************************************************************************)
(* Specifications: one caller, calls one after the other, on the           *)
(* instances of a pool.                                                    *)
(***************************************************************************)
\* flat records, a record with a nested key record, a record without keys
Pool == {"a1", "a2", "a3", "x1", "x2", "t1", "t2", "n1"}

Next == SqlAdd(Pool) \/ SqlExists(Pool)

Spec == Init /\ [][Next]_vars

\* key-equal pairs: nested key records with and without key fields
DedupPool == {"x1", "x2", "t1", "t2", "n1", "n2", "w1", "w2"}

NextDedup == SqlAdd(DedupPool) \/ SqlExists(DedupPool)

SpecDedup == Init /\ [][NextDedup]_vars

\* records with a field SqlModel cannot map to a column
BadPool == {"b1", "b2", "x1", "x3", "t1"}

NextBad == SqlAdd(BadPool) \/ SqlExists(BadPool)

SpecBad == Init /\ [][NextBad]_vars

\* a SqlModel and a MongoModel side by side
PolyPool == {"a1", "a2", "a3", "t1", "t2"}

NextPoly == BothAdd(PolyPool) \/ BothExists(PolyPool)

SpecPoly == Init /\ [][NextPoly]_vars

\* a PassThroughModel next to a SqlModel that stores the same instances
NoopPool == {"a1", "a2", "n1"}

NextNoop == SqlAdd(NoopPool) \/ NoopAdd(NoopPool) \/ NoopExists(NoopPool)

SpecNoop == Init /\ [][NextNoop]_vars

\* two SqlModel adapters, each on a store of its own, given the same instances
ScopedPool == {"a1", "a2", "x1", "t1"}

NextScoped ==
    \/ SqlAdd(ScopedPool) \/ SqlExists(ScopedPool)
    \/ SecondAdd(ScopedPool) \/ SecondExists(ScopedPool)

SpecScoped == Init /\ [][NextScoped]_vars

\* records with two nested key records, one of them nested twice deep
ResolvePool == {"f1", "f2", "t3", "x3"}

NextResolve == SqlAdd(ResolvePool) \/ SqlExists(ResolvePool)

SpecResolve == Init /\ [][NextResolve]_vars

\* key-equal records whose nested records, key or not, differ
FoundPool == {"l1", "l2", "t1", "t2", "x4"}

NextFound == SqlAdd(FoundPool) \/ SqlExists(FoundPool)

SpecFound == Init /\ [][NextFound]_vars

\* records that share nested records, or hold one nested record twice
PolicyPool == {"p1", "p2", "x2", "t1", "f1"}

NextPolicy == SqlAdd(PolicyPool) \/ SqlExists(PolicyPool)

SpecPolicy == Init /\ [][NextPolicy]_vars

\* records with nested records, on an engine that may fail
FaultPool == {"p1", "t1", "b2"}

NextFault == SqlAdd(FaultPool) \/ SqlAddFaulty(FaultPool)

SpecFault == Init /\ [][NextFault]_vars

\* key-equal records with different nested records, on an engine that may fail
RetryPool == {"l1", "l2", "x4"}

NextRetry == SqlAdd(RetryPool) \/ SqlAddFaulty(RetryPool)

SpecRetry == Init /\ [][NextRetry]_vars

\* two callers of add(data, check_exists=True) on one SqlModel
RacePool == {"a1", "a2", "a3", "t1", "t2"}

NextRace == RaceLookup(RacePool) \/ RaceInsert(RacePool)

SpecRace == Init /\ [][NextRace]_vars

\* classes nested in a chain, twice in one class, and along two paths
SchemaClasses ==
    {"TaxonomyData", "TreeData", "PairData", "ForestData", "WrapData",
     "LeafData", "BadTreeData"}

SchemaPool == {"t1", "w1"}

NextSchema == SqlRequire(SchemaClasses) \/ SqlAdd(SchemaPool)

SpecSchema == Init /\ [][NextSchema]_vars

\* two SqlModel adapters on one store, adding key-equal records
SharedPool == {"a1", "a2", "t1", "t2"}

NextShared == SharedAdd(SharedPool) \/ SharedConstruct

SpecShared == Init /\ [][NextShared]_vars

(***************************************************************************)
(* Vocabulary of the properties.                                           *)
(***************************************************************************)
HasKeys(cls) == KeyFields(cls) # <<>>

TableOf(data) == GetTableName(Cls[data])

IsSqlCall(c, op) == c.model = "sql" /\ c.op = op

KeyFieldSet(cls) == {KeyFields(cls)[i] : i \in 1..Len(KeyFields(cls))}

RECURSIVE KeyEqual(_, _)

\* two instances of one class with equal key-field values, nested key
\* records compared by their own key fields
KeyEqual(r1, r2) ==
    /\ Cls[r1] = Cls[r2]
    /\ \A f \in KeyFieldSet(Cls[r1]) :
          IF IsDataclass(f.type)
          THEN KeyEqual(Val[r1][f.name], Val[r2][f.name])
          ELSE Val[r1][f.name] = Val[r2][f.name]

RECURSIVE DeepKeyed(_)

\* the class has a key field, and so has the class of every nested key record
DeepKeyed(cls) ==
    /\ HasKeys(cls)
    /\ \A f \in KeyFieldSet(cls) : IsDataclass(f.type) => DeepKeyed(f.type)

RECURSIVE RowHasKeysOf(_, _, _, _)

\* the stored row holds the key values of r: its scalar key columns equal
\* r's values, its foreign ids lead to rows that hold the nested records' keys
RowHasKeysOf(rws, cls, row, r) ==
    \A f \in KeyFieldSet(cls) :
        IF IsDataclass(f.type)
        THEN LET sub == rws[GetTableName(f.type)]
                 id == row[f.name \o "_id"]
             IN  /\ id \in 1..Len(sub)
                 /\ RowHasKeysOf(rws, f.type, sub[id], Val[r][f.name])
        ELSE row[f.name] = Val[r][f.name]

\* the rows of r's entity that hold r's key values
RowsWithKeysOf(rws, r) ==
    {i \in 1..Len(rws[TableOf(r)]) : RowHasKeysOf(rws, Cls[r], rws[TableOf(r)][i], r)}

\* two rows of a class are equal on every key column, text keys compared
\* without case as the NOCASE collation does
SameKeyColumns(cls, row1, row2) ==
    \A f \in KeyFieldSet(cls) :
        IF IsDataclass(f.type)
        THEN row1[f.name \o "_id"] = row2[f.name \o "_id"]
        ELSE IF f.type = "str" THEN CaseFold[row1[f.name]] = CaseFold[row2[f.name]]
        ELSE row1[f.name] = row2[f.name]

\* no entity of a class with key fields holds two rows with equal keys
NoDuplicates(rws) ==
    \A cls \in Classes :
        HasKeys(cls) =>
            \A i, j \in 1..Len(rws[GetTableName(cls)]) :
                i # j => ~SameKeyColumns(cls, rws[GetTableName(cls)][i],
                                         rws[GetTableName(cls)][j])

\* the statements of the log on table tn
Statements(lg, op, tn) == {i \in 1..Len(lg) : lg[i].op = op /\ lg[i].table = tn}

(***************************************************************************)
(* C1.  Idempotent identity: for an instance r of a class with a key       *)
(* field, when add(r) returns i the instance carries i; from then on       *)
(* exists(r) returns true and every add(r), with check_exists true or      *)
(* false, returns i and inserts no row in any entity.                      *)
(***************************************************************************)
AddMemoizes ==
    (IsSqlCall(last, "add") /\ last.err = Ok /\ HasKeys(Cls[last.data]))
        => (last.ret # None /\ rowid[last.data] = last.ret)

MemoizedStep ==
    LET r == last'.data
    IN  (last'.model = "sql" /\ HasKeys(Cls[r]) /\ rowid[r] # None)
            => /\ rowid'[r] = rowid[r]
               /\ last'.err = Ok
               /\ last'.op = "exists" => last'.found
               /\ last'.op = "add" =>
                     (last'.ret = rowid[r] /\ rows' = rows /\ entities' = entities)

IdempotentIdentity == []AddMemoizes /\ [][MemoizedStep]_vars

\* a second add(r, check_exists=False) answered from the memoized identifier
IdempotentIdentityWitness ==
    /\ IsSqlCall(last, "add") /\ ~last.check_exists /\ last.err = Ok
    /\ HasKeys(Cls[last.data])
    /\ log = <<>> /\ last.ret = rowid[last.data] /\ last.ret # None

(***************************************************************************)
(* C2.  Cross-instance deduplication.  As claimed: add(r1) followed by     *)
(* add(r2, check_exists=True), r1 and r2 distinct and key-equal instances  *)
(* of a class with a key field, returns the same identifier and leaves     *)
(* exactly one row with those key values.                                  *)
(***************************************************************************)
DedupStep(pre) ==
    LET r1 == last.data
        r2 == last'.data
    IN  ( /\ IsSqlCall(last, "add") /\ last.check_exists /\ last.err = Ok
          /\ IsSqlCall(last', "add") /\ last'.check_exists
          /\ r1 # r2 /\ HasKeys(Cls[r1]) /\ KeyEqual(r1, r2)
          /\ pre )
            => /\ last'.err = Ok
               /\ last'.ret = last.ret
               /\ Cardinality(RowsWithKeysOf(rows', r2)) = 1

CrossInstanceDedupAsClaimed == [][DedupStep(TRUE)]_vars

\* C2 as amended: the same, when the store holds no two rows with equal keys
\* after add(r1) and the class of every nested key record has a key field
CrossInstanceDedup ==
    [][DedupStep(NoDuplicates(rows) /\ DeepKeyed(Cls[last.data]))]_vars

\* add(t2) finds the row add(t1) inserted, through a lookup of t2's own
\* nested taxonomy record
CrossInstanceDedupWitness ==
    /\ IsSqlCall(last, "add") /\ last.data = "t2" /\ last.check_exists
    /\ last.inserted = 0 /\ last.ret # None /\ last.ret = rowid["t1"]
    /\ Statements(log, "select", "taxonomydata") # {}
    /\ Statements(log, "select", "treedata") # {}
    /\ NoDuplicates(rows)
    /\ Cardinality(RowsWithKeysOf(rows, "t2")) = 1

(***************************************************************************)
(* C3.  Existence depends on key fields only: exists(r), r an instance     *)
(* without memoized identifier of a class with a key field, returns true   *)
(* exactly when r's entity holds a row that agrees with r on every key     *)
(* field: equal on a scalar key column (text without case), and holding    *)
(* the identifier of r's nested record in a foreign-id column.             *)
(***************************************************************************)
\* row agrees with r on every key field, ids being the instances' identifiers
RowAgrees(cls, row, r, ids) ==
    \A f \in KeyFieldSet(cls) :
        IF IsDataclass(f.type)
        THEN ids[Val[r][f.name]] # None /\ row[f.name \o "_id"] = ids[Val[r][f.name]]
        ELSE IF f.type = "str" THEN CaseFold[row[f.name]] = CaseFold[Val[r][f.name]]
        ELSE row[f.name] = Val[r][f.name]

ExistsStep ==
    LET r == last'.data
    IN  (IsSqlCall(last', "exists") /\ rowid[r] = None /\ HasKeys(Cls[r]))
            => (last'.found <=>
                   \E i \in 1..Len(rows[TableOf(r)]) :
                       RowAgrees(Cls[r], rows[TableOf(r)][i], r, rowid'))

NoKeysNeverExistsAsClaimed ==
    (IsSqlCall(last, "exists") /\ ~HasKeys(Cls[last.data])) => ~last.found

\* C4 as amended: exists(r) returns false exactly when r carries no memoized
\* identifier, whatever was inserted before; once add(r) has returned,
\* exists(r) returns true
NoKeysStep ==
    LET r == last'.data
    IN  (IsSqlCall(last', "exists") /\ ~HasKeys(Cls[r]))
            => (last'.found <=> rowid[r] # None)

NoKeysNeverDeduplicated == [][NoKeysStep]_vars

\* exists(n2) is false although add(n1) stored a row with the same values
NoKeysNeverDeduplicatedWitness ==
    /\ IsSqlCall(last, "exists") /\ last.data = "n2" /\ ~last.found
    /\ rowid["n1"] # None
    /\ rows["resultdata"] # <<>>

(***************************************************************************)
(* C5.  Recursive resolution and referential integrity: every foreign-id   *)
(* column of every row holds the id of a row of the nested class's entity; *)
(* when add inserts the row of a record with nested records, the nested    *)
(* rows are in their entities before the parent's insert, which is the     *)
(* last statement of the call, and each foreign id is the identifier       *)
(* memoized on the nested instance.                                        *)
(***************************************************************************)
ForeignIdsValid ==
    \A cls \in Classes :
        \A i \in 1..Len(rows[GetTableName(cls)]) :
            \A f \in NestedFields(cls) :
                rows[GetTableName(cls)][i][f.name \o "_id"]
                    \in 1..Len(rows[GetTableName(f.type)])

ParentInsertStep ==
    LET r == last'.data
    IN  ( /\ IsSqlCall(last', "add") /\ last'.inserted = 1
          /\ NestedFields(Cls[r]) # {} )
            => LET tn == TableOf(r)
                   row == rows'[tn][Len(rows'[tn])]
               IN  /\ log'[Len(log')] = Stmt("insert", tn, Len(rows'[tn]))
                   /\ last'.ret = Len(rows'[tn])
                   /\ \A f \in NestedFields(Cls[r]) :
                         /\ rowid'[Val[r][f.name]] # None
                         /\ row[f.name \o "_id"] = rowid'[Val[r][f.name]]
                         /\ rowid'[Val[r][f.name]]
                                \in 1..Len(rows'[GetTableName(f.type)])
                         /\ \A k \in Statements(log', "insert", GetTableName(f.type)) :
                                k < Len(log')

ReferentialIntegrity == []ForeignIdsValid /\ [][ParentInsertStep]_vars

\* add(t1) inserted the taxonomy row, then the tree row that refers to it
ReferentialIntegrityWitness ==
    /\ IsSqlCall(last, "add") /\ last.data = "t1" /\ last.inserted = 1
    /\ Statements(log, "insert", "taxonomydata") # {}
    /\ rows["treedata"][last.ret].taxonomy_id = rowid["x1"]

(***************************************************************************)
(* C6.  Unsupported field type.  As claimed: add on a record whose class   *)
(* has a field of an unsupported type fails and leaves the entities and    *)
(* the rows of every entity as they were, nested record fields or not.     *)
(***************************************************************************)
HasUnsupportedField(cls) ==
    \E i \in 1..Len(Fields[cls]) :
        ~IsDataclass(Fields[cls][i].type) /\ ColumnType(Fields[cls][i]) = ""

UnsupportedStepAsClaimed ==
    LET r == last'.data
    IN  (IsSqlCall(last', "add") /\ HasUnsupportedField(Cls[r]))
            => /\ last'.err = "ValueError"
               /\ entities' = entities
               /\ rows' = rows

UnsupportedTypeAsClaimed == [][UnsupportedStepAsClaimed]_vars

\* C6 as amended: the call fails, r's own entity is not created and gets no
\* row, and only the entities of r's nested record classes may change; when
\* the class has no nested record field nothing changes
UnsupportedStep ==
    LET r == last'.data
    IN  (IsSqlCall(last', "add") /\ HasUnsupportedField(Cls[r]))
            => /\ last'.err = "ValueError"
               /\ rowid'[r] = None
               /\ TableOf(r) \notin entities'
               /\ metadata'[TableOf(r)] = <<>>
               /\ rows'[TableOf(r)] = <<>>
               /\ \A tn \in TableNames :
                     (\A f \in NestedFields(Cls[r]) : tn # GetTableName(f.type))
                         => /\ rows'[tn] = rows[tn]
                            /\ tn \in entities' <=> tn \in entities

UnsupportedType == [][UnsupportedStep]_vars

\* add(b2) failed after it had stored b2's nested taxonomy record
UnsupportedTypeWitness ==
    /\ IsSqlCall(last, "add") /\ last.data = "b2" /\ last.err = "ValueError"
    /\ Statements(log, "insert", "taxonomydata") # {}
    /\ "badtreedata" \notin entities

(***************************************************************************)
(* C7.  The no-op adapter under the adapter contract: however add is       *)
(* called (check_exists omitted, true or false), exists returns false,     *)
(* add returns the empty list without error, and no stored state and no    *)
(* memoized identifier changes.                                            *)
(***************************************************************************)
IsNoopCall(c) == c.model \in DOMAIN Signature

NoopReturns ==
    IsNoopCall(last) =>
        /\ last.err = Ok
        /\ last.op = "exists" => ~last.found
        /\ last.op = "add" => last.ret = EmptyList

NoopFrameStep ==
    IsNoopCall(last') =>
        UNCHANGED <<metadata, entities, rows, rowid, docs, objectid>>

NoopContract == []NoopReturns /\ [][NoopFrameStep]_vars

(***************************************************************************)
(* C8.  Backend polymorphism: run side by side from empty stores, the      *)
(* SqlModel and the MongoModel return the same boolean from every exists   *)
(* and insert a new entry on the same add calls.                           *)
(***************************************************************************)
BackendPolymorphism ==
    /\ IsSqlCall(last, "exists") => last.found = mlast.found
    /\ IsSqlCall(last, "add") => ((last.inserted > 0) <=> (mlast.inserted > 0))

(***************************************************************************)
(* C9.  Entity lifecycle.  As claimed: after the first add or the first    *)
(* exists call that references a class returns, the entity of that class   *)
(* exists in the store, and an entity that exists, exists in every later   *)
(* state.                                                                  *)
(***************************************************************************)
EntityAfterFirstCall ==
    (last.model = "sql" /\ last.op \in {"add", "exists"} /\ last.err = Ok)
        => TableOf(last.data) \in entities

EntityLifecycleAsClaimed ==
    []EntityAfterFirstCall /\ [][entities \subseteq entities']_vars

\* C9 as amended: after an add call that references a class returns, the
\* entity of that class and of its nested record classes exists; an exists
\* call creates no entity; an entity that exists, exists in every later state
EntityAfterAdd ==
    (IsSqlCall(last, "add") /\ last.err = Ok)
        => /\ TableOf(last.data) \in entities
           /\ \A f \in NestedFields(Cls[last.data]) :
                 GetTableName(f.type) \in entities

EntitiesStep ==
    /\ entities \subseteq entities'
    /\ IsSqlCall(last', "exists") => entities' = entities

EntityLifecycle == []EntityAfterAdd /\ [][EntitiesStep]_vars

\* the first add of a tree has returned: both entities exist
EntityLifecycleWitness ==
    /\ IsSqlCall(last, "add") /\ last.data = "t1" /\ last.err = Ok
    /\ Statements(log, "create", "treedata") # {}
    /\ {"treedata", "taxonomydata"} \subseteq entities

(***************************************************************************)
(* C10.  exists is read-only on the store: it inserts no row and creates   *)
(* no entity, returns false without error when the entity of the record's  *)
(* class was never created, and changes at most the memoized identifier of *)
(* the record and of its nested key records.                               *)
(***************************************************************************)
RECURSIVE KeyRecords(_)

\* r and its nested key records, transitively
KeyRecords(r) ==
    {r} \cup UNION {KeyRecords(Val[r][f.name]) :
                       f \in {g \in KeyFieldSet(Cls[r]) : IsDataclass(g.type)}}

ExistsReadOnlyStep ==
    LET r == last'.data
    IN  IsSqlCall(last', "exists")
            => /\ last'.err = Ok
               /\ rows' = rows
               /\ entities' = entities
               /\ metadata' = metadata
               /\ Statements(log', "insert", TableOf(r)) = {}
               /\ \A i \in 1..Len(log') : log'[i].op = "select"
               /\ TableOf(r) \notin entities => ~last'.found
               /\ \A d \in Instances : rowid'[d] # rowid[d] => d \in KeyRecords(r)

ExistsReadOnly == [][ExistsReadOnlyStep]_vars

\* exists(t2) found the tree row and memoized t2 and its taxonomy record
ExistsReadOnlyWitness ==
    /\ IsSqlCall(last, "exists") /\ last.data = "t2" /\ last.found
    /\ Statements(log, "select", "taxonomydata") # {}
    /\ rowid["t2"] # None /\ rowid["x2"] # None

(***************************************************************************)
(* C11.  Memoization short-circuit: once an instance carries a memoized    *)
(* identifier, every later exists or add on it, with check_exists true or  *)
(* false, returns that identifier (true for exists) and sends no statement *)
(* to the engine: no select, no insert, no create table; and the memoized  *)
(* identifier of an instance never changes once it is set.                 *)
(***************************************************************************)
ShortCircuitStep ==
    LET r == last'.data
    IN  /\ \A d \in Instances : rowid[d] # None => rowid'[d] = rowid[d]
        /\ (last'.model = "sql" /\ last'.op \in {"add", "exists"} /\ rowid[r] # None)
              => /\ last'.err = Ok
                 /\ log' = <<>>
                 /\ rows' = rows /\ entities' = entities /\ metadata' = metadata
                 /\ last'.op = "exists" => last'.found
                 /\ last'.op = "add" => last'.ret = rowid[r]

MemoShortCircuit == [][ShortCircuitStep]_vars

\* exists on a stored record without key fields: true, and no statement sent
MemoShortCircuitWitness ==
    /\ IsSqlCall(last, "exists") /\ last.data = "n1" /\ last.found
    /\ log = <<>> /\ rowid["n1"] # None
    /\ rowid["t1"] # None /\ rowid["x1"] # None

(***************************************************************************)
(* C12.  Identifiers are adapter-scoped: with two adapters bound to        *)
(* different stores and given the same instances, when exists(r) returns   *)
(* true on an adapter, or add(r) returns identifier i on it, the store of  *)
(* that adapter holds a row of r's class with identifier i (for exists:    *)
(* the identifier r carries) whose key fields equal r's.                   *)
(***************************************************************************)
\* the rows of the store of the adapter that served the call
StoreOf(c) == IF c.model = "sql2" THEN second.rows ELSE rows

HoldsRowOf(rws, r, i) ==
    /\ i \in 1..Len(rws[TableOf(r)])
    /\ RowHasKeysOf(rws, Cls[r], rws[TableOf(r)][i], r)

AdapterScoped ==
    (last.model \in {"sql", "sql2"} /\ last.err = Ok)
        => /\ (last.op = "exists" /\ last.found)
                 => HoldsRowOf(StoreOf(last), last.data, rowid[last.data])
           /\ last.op = "add" => HoldsRowOf(StoreOf(last), last.data, last.ret)

(***************************************************************************)
(* C13.  Nested record resolved to absent.  As claimed: when exists        *)
(* resolves a record whose entity exists and a nested key record of it     *)
(* resolves to absent, the resolution returns absent at once: no select is *)
(* sent on the record's entity and the key fields after that nested record *)
(* are not processed (a nested key record after it is not resolved).       *)
(***************************************************************************)
\* the positions of the nested key records among the key fields of cls
NestedKeyIndices(cls) ==
    {i \in 1..Len(KeyFields(cls)) : IsDataclass(KeyFields(cls)[i].type)}

\* the nested record in key field i of r
KeyRecord(r, i) == Val[r][KeyFields(Cls[r])[i].name]

\* exists(r) resolves r through its entity, and the nested key record in
\* key field i comes out absent
ResolvesAbsent(r, i) ==
    /\ IsSqlCall(last', "exists") /\ last'.data = r
    /\ rowid[r] = None /\ metadata[TableOf(r)] # <<>>
    /\ i \in NestedKeyIndices(Cls[r])
    /\ rowid'[KeyRecord(r, i)] = None

AbsentShortCircuitStep ==
    LET r == last'.data
    IN  \A i \in 1..Len(KeyFields(Cls[r])) :
            ResolvesAbsent(r, i)
                => /\ ~last'.found
                   /\ Statements(log', "select", TableOf(r)) = {}
                   /\ \A j \in NestedKeyIndices(Cls[r]) :
                          j > i => rowid'[KeyRecord(r, j)] = rowid[KeyRecord(r, j)]

AbsentShortCircuitAsClaimed == [][AbsentShortCircuitStep]_vars

\* C13 as amended: the resolution returns absent and memoizes nothing on the
\* record, but only after it has processed every key field (a nested key
\* record whose entity exists and whose class has a key field is looked up)
\* and has sent, as its last statement, one select on the record's entity
AbsentNoShortCircuitStep ==
    LET r == last'.data
    IN  \A i \in 1..Len(KeyFields(Cls[r])) :
            ResolvesAbsent(r, i)
                => /\ ~last'.found /\ last'.err = Ok
                   /\ rowid'[r] = None
                   /\ Cardinality(Statements(log', "select", TableOf(r))) = 1
                   /\ log'[Len(log')] = Stmt("select", TableOf(r), None)
                   /\ \A j \in NestedKeyIndices(Cls[r]) :
                          LET d == KeyRecord(r, j)
                          IN  ( /\ rowid[d] = None /\ HasKeys(Cls[d])
                                /\ metadata[TableOf(d)] # <<>> )
                                  => Statements(log', "select", TableOf(d)) # {}

AbsentNoShortCircuit == [][AbsentNoShortCircuitStep]_vars

\* exists(f2): the nested tree is absent, yet the taxonomy record after it
\* was looked up and memoized, and the select on forestdata was sent
AbsentNoShortCircuitWitness ==
    /\ IsSqlCall(last, "exists") /\ last.data = "f2" /\ ~last.found
    /\ rowid["t3"] = None /\ rowid["x3"] # None
    /\ Statements(log, "select", "taxonomydata") # {}
    /\ Statements(log, "select", "forestdata") # {}

(***************************************************************************)
(* C14.  add(r, check_exists=True) that finds a row matching r's key       *)
(* fields returns the identifier of that row, memoizes it on r and leaves  *)
(* every entity as it was: no row is inserted for r, none for a nested     *)
(* record of r, also when a nested record that is not a key field has no   *)
(* equivalent row in the store.                                            *)
(***************************************************************************)
\* the nested records of r that are not key fields
NonKeyRecords(r) ==
    {Val[r][f.name] : f \in {g \in NestedFields(Cls[r]) : ~g.key}}

FoundStep ==
    LET r == last'.data
        tn == TableOf(r)
    IN  ( /\ IsSqlCall(last', "add") /\ last'.check_exists
          /\ rowid[r] = None /\ HasKeys(Cls[r]) /\ metadata[tn] # <<>>
          /\ \E i \in 1..Len(rows[tn]) :
                 RowAgrees(Cls[r], rows[tn][i], r, rowid') )
            => /\ last'.err = Ok
               /\ last'.ret \in 1..Len(rows[tn])
               /\ RowAgrees(Cls[r], rows[tn][last'.ret], r, rowid')
               /\ rowid'[r] = last'.ret
               /\ rows' = rows /\ entities' = entities /\ metadata' = metadata
               /\ \A i \in 1..Len(log') : log'[i].op = "select"
               /\ \A d \in NonKeyRecords(r) : rowid'[d] = rowid[d]

FoundNoInsert == [][FoundStep]_vars

\* add(l2) returned the row of l1; l2's nested taxonomy record, animalia, was
\* never stored
FoundNoInsertWitness ==
    /\ IsSqlCall(last, "add") /\ last.data = "l2" /\ last.check_exists
    /\ last.err = Ok /\ last.inserted = 0
    /\ last.ret = rowid["l1"] /\ rowid["l2"] = rowid["l1"]
    /\ rowid["x4"] = None
    /\ \A i \in 1..Len(rows["taxonomydata"]) :
           rows["taxonomydata"][i].kingdom # "animalia"

(***************************************************************************)
(* C15.  check_exists goes down the nested tree unchanged:                 *)
(* add(r, check_exists=False) on an instance without memoized identifier   *)
(* sends no select, for r or for a nested record, and inserts exactly one  *)
(* row for r and one row for each nested record instance of r,             *)
(* transitively, that has no memoized identifier, whether or not rows with *)
(* equal key fields are stored already.                                    *)
(***************************************************************************)
\* the instances of the tree of r that are stored in table tn and have no
\* memoized identifier
Unstored(r, tn) == {d \in RecordTree(r) : TableOf(d) = tn /\ rowid[d] = None}

NoCheckStep ==
    LET r == last'.data
    IN  (IsSqlCall(last', "add") /\ ~last'.check_exists /\ rowid[r] = None)
            => /\ last'.err = Ok
               /\ Statements(log', "select", TableOf(r)) = {}
               /\ \A i \in 1..Len(log') : log'[i].op # "select"
               /\ last'.inserted = 1
               /\ \A tn \in TableNames :
                     /\ Len(rows'[tn]) = Len(rows[tn]) + Cardinality(Unstored(r, tn))
                     /\ \A d \in Unstored(r, tn) :
                            rowid'[d] \in (Len(rows[tn]) + 1)..Len(rows'[tn])
                     /\ \A d, e \in Unstored(r, tn) : d # e => rowid'[d] # rowid'[e]

PolicyPassedDown == [][NoCheckStep]_vars

\* add(t1, check_exists=False) stored a second plantae row for its nested
\* taxonomy record next to the one stored for x2
PolicyPassedDownWitness ==
    /\ IsSqlCall(last, "add") /\ last.data = "t1" /\ ~last.check_exists
    /\ last.inserted = 1
    /\ rowid["x2"] # None /\ rowid["x1"] # None /\ rowid["x1"] # rowid["x2"]
    /\ Statements(log, "insert", "taxonomydata") # {}
    /\ ~NoDuplicates(rows)

(***************************************************************************)
(* C16.  No rollback across the nested insert chain: when add on a record  *)
(* fails after it has inserted nested records (a later nested insert, the  *)
(* creation of the record's entity or the record's insert fails), the rows *)
(* inserted for the nested records stay in the store, the call has stored  *)
(* no row for the record, and the record carries no memoized identifier.   *)
(***************************************************************************)
IsPrefix(s, t) == Len(s) <= Len(t) /\ SubSeq(t, 1, Len(s)) = s

NoRollbackStep ==
    LET r == last'.data
    IN  ( /\ IsSqlCall(last', "add") /\ last'.err # Ok
          /\ \E i \in 1..Len(log') : log'[i].op = "insert" )
            => /\ \A tn \in TableNames : IsPrefix(rows[tn], rows'[tn])
               /\ \A i \in 1..Len(log') :
                     log'[i].op = "insert" =>
                        /\ log'[i].id \in (Len(rows[log'[i].table]) + 1)
                                               ..Len(rows'[log'[i].table])
                        /\ \E d \in RecordTree(r) \ {r} :
                               /\ TableOf(d) = log'[i].table
                               /\ rowid[d] = None /\ rowid'[d] = log'[i].id
               /\ rows'[TableOf(r)] = rows[TableOf(r)]
               /\ rowid'[r] = None

NoRollback == [][NoRollbackStep]_vars

\* add(p1) failed on the insert of its second nested record: the row of the
\* first one is stored, pairdata has no row
NoRollbackWitness ==
    /\ IsSqlCall(last, "add") /\ last.data = "p1" /\ last.err = "OperationalError"
    /\ Statements(log, "insert", "taxonomydata") # {}
    /\ rowid["x1"] # None /\ rowid["x4"] = None /\ rowid["p1"] = None
    /\ rows["taxonomydata"] # <<>> /\ rows["pairdata"] = <<>>

(***************************************************************************)
(* C17.  Retry after a partial failure.  As claimed: when add(p) failed    *)
(* after it had inserted nested records of p, a later add(p) on the same   *)
(* instance that succeeds, with check_exists true or false, inserts no     *)
(* second row for a nested record the failed call inserted, and the        *)
(* foreign references of the row of p (the row whose identifier the call   *)
(* returns) equal the identifiers given during the failed call.            *)
(***************************************************************************)
\* the call inserts rows only for instances of the tree of r that had no
\* memoized identifier, and the records a failed add(r) stored keep theirs
NoSecondRow(r) ==
    /\ \A d \in DOMAIN partial[r] : rowid'[d] = partial[r][d]
    /\ \A i \in 1..Len(log') :
          log'[i].op = "insert" =>
             /\ \E e \in RecordTree(r) :
                    /\ rowid[e] = None /\ e \notin DOMAIN partial[r]
                    /\ TableOf(e) = log'[i].table /\ rowid'[e] = log'[i].id
             /\ \A d \in DOMAIN partial[r] :
                    TableOf(d) = log'[i].table => partial[r][d] # log'[i].id

\* the foreign references, in the row the call returned, to the nested
\* records in the fields fs that a failed add(r) stored
ReferencesKept(r, fs) ==
    LET row == rows'[TableOf(r)][last'.ret]
    IN  \A f \in fs :
            Val[r][f.name] \in DOMAIN partial[r]
                => row[f.name \o "_id"] = partial[r][Val[r][f.name]]

IsRetry(r) ==
    /\ IsSqlCall(last', "add") /\ last'.data = r /\ last'.err = Ok
    /\ DOMAIN partial[r] # {}

RetryStepAsClaimed ==
    LET r == last'.data
    IN  IsRetry(r) => NoSecondRow(r) /\ ReferencesKept(r, NestedFields(Cls[r]))

RetryNoDuplicateAsClaimed == [][RetryStepAsClaimed]_vars

\* C17 as amended: the same, the foreign references being those of key
\* fields, and those of every field when the retry inserts the row of p
RetryStep ==
    LET r == last'.data
    IN  IsRetry(r) =>
            /\ NoSecondRow(r)
            /\ ReferencesKept(r, {f \in NestedFields(Cls[r]) : f.key})
            /\ last'.inserted = 1 => ReferencesKept(r, NestedFields(Cls[r]))

RetryNoDuplicate == [][RetryStep]_vars

\* add(l1) failed after it had stored its taxonomy record; the retry, with
\* check_exists=False, inserted the row of l1 with that identifier and no
\* second taxonomy row
RetryNoDuplicateWitness ==
    /\ IsSqlCall(last, "add") /\ last.data = "l1" /\ ~last.check_exists
    /\ last.err = Ok /\ last.inserted = 1
    /\ "x1" \in DOMAIN partial["l1"]
    /\ rows["leafdata"][last.ret].taxonomy_id = partial["l1"]["x1"]
    /\ Statements(log, "insert", "taxonomydata") = {}
    /\ Statements(log, "insert", "leafdata") # {}

(***************************************************************************)
(* C18.  Two callers run add(r1, check_exists=True) and                    *)
(* add(r2, check_exists=True), the lookup and the insert of a call being   *)
(* separate atomic steps.  As long as no two calls have interleaved, no    *)
(* entity holds two rows with equal key-field values; when the calls       *)
(* interleave, such a state is reachable.                                  *)
(***************************************************************************)
DuplicatesOnlyByRace == ~overlap => NoDuplicates(rows)

\* both callers looked a1 and a2 up before either inserted: two rows (3, 4)
DuplicatesOnlyByRaceWitness ==
    /\ overlap
    /\ \A c \in Callers : pc[c].at = "idle"
    /\ rowid["a1"] # None /\ rowid["a2"] # None /\ rowid["a1"] # rowid["a2"]
    /\ Len(rows["arithmeticdata"]) = 2
    /\ SameKeyColumns("ArithmeticData", rows["arithmeticdata"][1],
                      rows["arithmeticdata"][2])
    /\ ~NoDuplicates(rows)

(***************************************************************************)
(* C19.  _require_table terminates and is idempotent: for a class whose    *)
(* nested record classes form an acyclic graph (a class in several fields  *)
(* or reached along several paths included) the call returns, having       *)
(* created the entity of the class and of each class nested in it exactly  *)
(* once, the entity of a nested class before the entity that refers to it; *)
(* a call for a class whose entity is cached creates nothing and returns   *)
(* the cached entity.                                                      *)
(***************************************************************************)
RECURSIVE TypeTree(_)

\* cls and the record classes nested in it, transitively
TypeTree(cls) == {cls} \cup UNION {TypeTree(f.type) : f \in NestedFields(cls)}

RequireStep ==
    LET cls == last'.cls
        tn == GetTableName(cls)
        Created(t) == Statements(log', "create", t)
    IN  (last'.model = "sql" /\ last'.op = "require")
            => /\ rows' = rows /\ rowid' = rowid
               /\ \A t \in TableNames :
                     /\ Cardinality(Created(t)) <= 1
                     /\ t \in entities => Created(t) = {}
                     /\ t \in entities' \ entities
                           => /\ Cardinality(Created(t)) = 1
                              /\ \E c \in TypeTree(cls) : t = GetTableName(c)
               /\ \A c \in TypeTree(cls) :
                     \A f \in NestedFields(c) :
                        /\ GetTableName(c) \in entities'
                              => GetTableName(f.type) \in entities'
                        /\ \A i \in Created(GetTableName(c)) :
                              \A j \in Created(GetTableName(f.type)) : j < i
               /\ last'.err = Ok
                     => /\ last'.table = tn
                        /\ \A c \in TypeTree(cls) :
                              /\ GetTableName(c) \in entities'
                              /\ metadata'[GetTableName(c)] # <<>>
               /\ metadata[tn] # <<>>
                     => /\ last'.err = Ok /\ last'.table = tn
                        /\ log' = <<>>
                        /\ metadata' = metadata /\ entities' = entities

RequireIdempotent == [][RequireStep]_vars

\* _require_table(ForestData) on an empty store: taxonomydata, treedata,
\* forestdata created once each, in that order
RequireIdempotentWitness ==
    /\ last.model = "sql" /\ last.op = "require" /\ last.cls = "ForestData"
    /\ last.err = Ok
    /\ log = <<Stmt("create", "taxonomydata", None), Stmt("create", "treedata", None),
               Stmt("create", "forestdata", None)>>
    /\ entities = {"taxonomydata", "treedata", "forestdata"}

(***************************************************************************)
(* C20.  Two SqlModel adapters on the same store, each reflecting the      *)
(* store once when constructed, whole add calls one at a time with         *)
(* check_exists=True on fresh instances: no entity of the store ever holds *)
(* two rows with equal key-field values; an adapter constructed before the *)
(* other one created an entity finds the rows of that entity all the same. *)
(***************************************************************************)
SharedStoreNoDuplicates == NoDuplicates(rows)

====
